---- MODULE Spec2Model ----
(***************************************************************************)
(* Model of the segregated-free-list allocator of                          *)
(* labs/malloc-lab/seg_free_list_allocator/mm.c.                           *)
(*                                                                         *)
(* Memory is a sparse map from byte addresses to 32-bit words: its domain  *)
(* is the set of words the allocator has written.  A word that was never   *)
(* written holds an indeterminate value; every call draws that value from  *)
(* Garbage.  Addresses, block sizes and header words stay far below 2^31   *)
(* in every reachable state of the bounded model and are plain integers.   *)
(* Request sizes range over the whole size_t range [0, 2^32), so they (and *)
(* the size-class boundaries they are compared with) are kept as pairs of  *)
(* 16-bit halves <<hi, lo>> with arithmetic modulo 2^32.                   *)
(***************************************************************************)
EXTENDS Integers, Sequences, FiniteSets, TLC

VARIABLES mem, mem_brk, heap_listp, segregated_free_list, status,
          handles, last, hist, ncalls, probe

vars == <<mem, mem_brk, heap_listp, segregated_free_list, status,
          handles, last, hist, ncalls, probe>>

(***************************************************************************)
(* Bounds of the model.                                                    *)
(***************************************************************************)
\* number of mm_malloc / mm_free calls made by the client
MaxCalls == 3
\* capacity of the region provider, in chunks
MaxHeapChunks == 3
\* number of loop iterations followed before a scan is declared runaway
MaxScan == 24
\* number of words the client stores into the blocks it was given
MaxWrites == 1

(***************************************************************************)
(* size_t values as <<hi, lo>> pairs of 16-bit halves (32-bit build: a     *)
(* free block of 16 bytes holds a header, two pointers and a footer).      *)
(***************************************************************************)
Half == 2 ^ 16

ToW(n) == <<n \div Half, n % Half>>

FromW(w) == w[1] * Half + w[2]

\* w fits a non-negative int (it is below 2^31)
SmallW(w) == w[1] < 32768

\* w + n modulo 2^32, for 0 <= n < 2^16
AddW(w, n) ==
  LET lo == w[2] + n
  IN  <<(w[1] + (lo \div Half)) % Half, lo % Half>>

\* w & ~(k - 1), for k a power of two not above 2^16
MaskW(w, k) == <<w[1], w[2] - (w[2] % k)>>

LtW(a, b) == (a[1] < b[1]) \/ (a[1] = b[1] /\ a[2] < b[2])

LeW(a, b) == (a = b) \/ LtW(a, b)

(***************************************************************************)
(* mm_macros.h (included at mm.c:109, not part of the sources).            *)
(***************************************************************************)
NULL == 0
WSIZE == 4
MIN_BK_SIZE == 16
CHUNKSIZE == 4096
CURR_ALLOC == 1
PREV_ALLOC == 2

\* round a size_t up to the block granularity, modulo 2^32
ALIGN(w) == MaskW(AddW(w, MIN_BK_SIZE - 1), MIN_BK_SIZE)

\* round a size_t up to a multiple of the chunk size, modulo 2^32
ALIGN_CHUNKSIZE(w) == MaskW(AddW(w, CHUNKSIZE - 1), CHUNKSIZE)

IS_ALIGN_WITH_MIN_BK_SIZE(n) == (n % MIN_BK_SIZE) = 0

PACK(size, alloc) == size + alloc

GET_SIZE(w) == w - (w % 8)

GET_ALLOC(w) == w % 2

GET_PREV_ALLOC(w) == (w \div 2) % 2

HDRP_USE_PLDP(pldp) == pldp - WSIZE

\* the value READ_WORD yields: the word written there, or indeterminate
READ_WORD(m, p, g) == IF p \in DOMAIN m THEN m[p] ELSE g

WRITE_WORD(m, p, v) == [a \in (DOMAIN m) \cup {p} |-> IF a = p THEN v ELSE m[a]]

SET_SIZE(m, p, size, g) ==
  WRITE_WORD(m, p, size + (READ_WORD(m, p, g) % 8))

SET_CURR_ALLOC_BIT(m, p, g) ==
  LET w == READ_WORD(m, p, g)
  IN  WRITE_WORD(m, p, IF GET_ALLOC(w) = 1 THEN w ELSE w + CURR_ALLOC)

SET_PREV_ALLOC_BIT(m, p, g) ==
  LET w == READ_WORD(m, p, g)
  IN  WRITE_WORD(m, p, IF GET_PREV_ALLOC(w) = 1 THEN w ELSE w + PREV_ALLOC)

GET_PREV_PTR(m, hdrp, g) == READ_WORD(m, hdrp + WSIZE, g)

GET_NEXT_PTR(m, hdrp, g) == READ_WORD(m, hdrp + 2 * WSIZE, g)

SET_PREV_PTR(m, hdrp, p) == WRITE_WORD(m, hdrp + WSIZE, p)

SET_NEXT_PTR(m, hdrp, p) == WRITE_WORD(m, hdrp + 2 * WSIZE, p)

(***************************************************************************)
(* memlib: the region provider.                                            *)
(***************************************************************************)
\* address of the first byte of the provider's arena
mem_heap == 1048576

MAX_HEAP == MaxHeapChunks * CHUNKSIZE + 2 * WSIZE

mem_max_addr == mem_heap + MAX_HEAP

\* mem_sbrk(incr) with incr a size_t converted to int: TRUE when it fails
mem_sbrk_fails(brk, w) == (~SmallW(w)) \/ (brk + FromW(w) > mem_max_addr)

(***************************************************************************)
(* Indeterminate values a read of a never-written word may yield: a zero   *)
(* word, an allocated and a free header of a size the allocator hands out, *)
(* and a free header whose size is a multiple of 8 but not of 16.          *)
(***************************************************************************)
Garbage == {0, 1, 16, 40}

(***************************************************************************)
(* mm.c                                                                    *)
(***************************************************************************)
index_arr_size == 28

\* index_array[i] = 1 << (4 + i), as a size_t of the 32-bit build
index_array(i) ==
  IF 4 + i < 16 THEN <<0, 2 ^ (4 + i)>> ELSE <<2 ^ (4 + i - 16), 0>>

RECURSIVE find_index_loop(_, _, _)
find_index_loop(size, low, high) ==
  IF low < high
  THEN LET mid == (high + low) \div 2
       IN  IF LtW(size, index_array(mid))
           THEN find_index_loop(size, low, mid)
           ELSE find_index_loop(size, mid + 1, high)
  ELSE low - 1

\* find_index with the search started at high = index_arr_size - 1
find_index_short(size) == find_index_loop(size, 0, index_arr_size - 1)

find_index(size) == find_index_loop(size, 0, index_arr_size)

init_free_block(m, hdrp, bk_size, g) ==
  LET m1 == WRITE_WORD(m, hdrp, PACK(bk_size, 0))
      m2 == WRITE_WORD(m1, hdrp + bk_size - WSIZE, READ_WORD(m1, hdrp, g))
      m3 == SET_PREV_PTR(m2, hdrp, NULL)
  IN  SET_NEXT_PTR(m3, hdrp, NULL)

\* the while loop of insert_into_size_class; -1 when it does not end
RECURSIVE insert_walk(_, _, _, _, _)
insert_walk(m, head, hdrp, g, fuel) ==
  IF fuel = 0 THEN -1
  ELSE LET nx == GET_NEXT_PTR(m, head, g)
       IN  IF nx # NULL /\ nx < hdrp
           THEN insert_walk(m, nx, hdrp, g, fuel - 1)
           ELSE head

\* address-ordered build (__LIFO_ORDERING__ is not defined)
insert_into_size_class(m, lists, hdrp, index, g) ==
  IF index \notin DOMAIN lists
  THEN [mem |-> m, lists |-> lists, fault |-> TRUE]
  ELSE
    LET head == lists[index]
    IN  IF head = NULL
        THEN [mem |-> m, lists |-> [lists EXCEPT ![index] = hdrp], fault |-> FALSE]
        ELSE IF hdrp < head
        THEN LET m1 == SET_NEXT_PTR(m, hdrp, head)
                 m2 == SET_PREV_PTR(m1, hdrp, NULL)
                 m3 == SET_PREV_PTR(m2, head, hdrp)
             IN  [mem |-> m3, lists |-> [lists EXCEPT ![index] = hdrp], fault |-> FALSE]
        ELSE LET at == insert_walk(m, head, hdrp, g, MaxScan)
             IN  IF at = -1
                 THEN [mem |-> m, lists |-> lists, fault |-> TRUE]
                 ELSE LET m1 == SET_NEXT_PTR(m, hdrp, GET_NEXT_PTR(m, at, g))
                          m2 == SET_NEXT_PTR(m1, at, hdrp)
                          m3 == SET_PREV_PTR(m2, hdrp, at)
                          nx == GET_NEXT_PTR(m3, hdrp, g)
                          m4 == IF nx # NULL THEN SET_PREV_PTR(m3, nx, hdrp) ELSE m3
                      IN  [mem |-> m4, lists |-> lists, fault |-> FALSE]

coalesce(m, pldp, g) ==
  LET hdrp == HDRP_USE_PLDP(pldp)
      size == GET_SIZE(READ_WORD(m, hdrp, g))
      prev_alloc == GET_PREV_ALLOC(READ_WORD(m, hdrp, g))
      next_alloc == GET_ALLOC(READ_WORD(m, hdrp + size, g))
  IN  IF prev_alloc = 1 /\ next_alloc = 1
      THEN [mem |-> m, ret |-> pldp]
      ELSE IF prev_alloc = 0 /\ next_alloc = 1
      THEN LET prev_hdrp == hdrp - GET_SIZE(READ_WORD(m, hdrp - WSIZE, g))
               m1 == WRITE_WORD(m, prev_hdrp, READ_WORD(m, prev_hdrp, g) + size)
               m2 == WRITE_WORD(m1, hdrp + size - WSIZE, READ_WORD(m1, prev_hdrp, g))
           IN  [mem |-> m2, ret |-> prev_hdrp + WSIZE]
      ELSE IF prev_alloc = 1 /\ next_alloc = 0
      THEN LET next_hdrp == hdrp + size
               next_size == GET_SIZE(READ_WORD(m, next_hdrp, g))
               m1 == WRITE_WORD(m, hdrp, READ_WORD(m, hdrp, g) + next_size)
               m2 == WRITE_WORD(m1, next_hdrp + next_size - WSIZE, READ_WORD(m1, hdrp, g))
           IN  [mem |-> m2, ret |-> pldp]
      ELSE LET prev_size == GET_SIZE(READ_WORD(m, hdrp - WSIZE, g))
               next_hdrp == hdrp + size
               prev_hdrp == hdrp - prev_size
               next_size == GET_SIZE(READ_WORD(m, next_hdrp, g))
               m1 == WRITE_WORD(m, prev_hdrp,
                                READ_WORD(m, prev_hdrp, g) + size + next_size)
               m2 == WRITE_WORD(m1, next_hdrp + next_size - WSIZE,
                                READ_WORD(m1, prev_hdrp, g))
           IN  [mem |-> m2, ret |-> prev_hdrp + WSIZE]

\* the do-while scan of find_first_fit: a payload pointer, NULL, or -1 when
\* the scan does not end within MaxScan blocks
RECURSIVE find_first_fit_loop(_, _, _, _, _)
find_first_fit_loop(m, hdrp, asize, g, fuel) ==
  IF fuel = 0 THEN -1
  ELSE LET w == READ_WORD(m, hdrp, g)
           b_size == GET_SIZE(w)
       IN  IF LeW(asize, ToW(b_size)) /\ GET_ALLOC(w) = 0
           THEN hdrp + WSIZE
           ELSE IF b_size > 0
           THEN find_first_fit_loop(m, hdrp + b_size, asize, g, fuel - 1)
           ELSE NULL

find_first_fit(m, listp, asize, g) == find_first_fit_loop(m, listp, asize, g, MaxScan)

\* the tail of place_and_split, from SET_PREV_ALLOC_BIT(next_hdrp) on
place_next(m, next_hdrp, g) ==
  IF GET_ALLOC(READ_WORD(m, next_hdrp, g)) = 0
  THEN SET_PREV_ALLOC_BIT(m, next_hdrp + GET_SIZE(READ_WORD(m, next_hdrp, g)) - WSIZE, g)
  ELSE m

\* the placement of place_and_split, after the split (if any) wrote the
\* remainder's header: b_size bytes at hdrp become the allocated block
place_block(m, hdrp, b_size, g) ==
  place_next(
    SET_PREV_ALLOC_BIT(
      SET_CURR_ALLOC_BIT(SET_SIZE(m, hdrp, b_size, g), hdrp, g),
      hdrp + b_size, g),
    hdrp + b_size, g)

\* asize is a plain integer here: mm_malloc only places a request into a
\* block whose header size it found to be at least asize
place_and_split(m, pldp, asize, g) ==
  LET hdrp == HDRP_USE_PLDP(pldp)
      b_size == GET_SIZE(READ_WORD(m, hdrp, g))
      left_size == b_size - asize
      new_free_hdrp == hdrp + asize
  IN  IF left_size # 0 /\ IS_ALIGN_WITH_MIN_BK_SIZE(left_size)
      THEN place_block(
             WRITE_WORD(WRITE_WORD(m, new_free_hdrp, PACK(left_size, 0)),
                        new_free_hdrp + left_size - WSIZE, PACK(left_size, 0)),
             hdrp, asize, g)
      ELSE place_block(m, hdrp, b_size, g)

\* b_size < asize makes left_size = b_size - asize wrap around 2^32
place_wraps(m, pldp, asize, g) ==
  GET_SIZE(READ_WORD(m, HDRP_USE_PLDP(pldp), g)) < asize

\* extend_heap after init_free_block and insert_into_size_class (ins)
extend_heap_tail(ins, hdrp, asize, brk, g) ==
  [mem |-> coalesce(WRITE_WORD(ins.mem, hdrp + asize, PACK(0, CURR_ALLOC)),
                    hdrp + WSIZE, g).mem,
   ret |-> coalesce(WRITE_WORD(ins.mem, hdrp + asize, PACK(0, CURR_ALLOC)),
                    hdrp + WSIZE, g).ret,
   brk |-> brk + asize, lists |-> ins.lists, fault |-> ins.fault,
   failed |-> FALSE]

\* extend_heap once mem_sbrk has returned the old region end brk
extend_heap_grow(m, brk, lists, size, g) ==
  extend_heap_tail(
    insert_into_size_class(
      init_free_block(m, brk - WSIZE, FromW(ALIGN_CHUNKSIZE(size)), g),
      lists, brk - WSIZE, find_index(ALIGN_CHUNKSIZE(size)), g),
    brk - WSIZE, FromW(ALIGN_CHUNKSIZE(size)), brk, g)

\* extend_heap that writes the new epilogue before it looks at what
\* mem_sbrk returned
extend_heap_unchecked(m, brk, lists, size, g) ==
  IF mem_sbrk_fails(brk, ALIGN_CHUNKSIZE(size))
  THEN [mem |-> WRITE_WORD(m, brk - WSIZE, PACK(0, CURR_ALLOC) + PREV_ALLOC),
        brk |-> brk, lists |-> lists, ret |-> NULL,
        fault |-> FALSE, failed |-> TRUE]
  ELSE extend_heap_grow(m, brk, lists, size, g)

\* extend_heap(size): ret = NULL when mem_sbrk refuses
extend_heap(m, brk, lists, size, g) ==
  IF mem_sbrk_fails(brk, ALIGN_CHUNKSIZE(size))
  THEN [mem |-> m, brk |-> brk, lists |-> lists, ret |-> NULL,
        fault |-> FALSE, failed |-> TRUE]
  ELSE extend_heap_grow(m, brk, lists, size, g)

\* the footer word of the block whose payload starts at pldp
FTR_WORD(m, pldp, g) ==
  READ_WORD(m, HDRP_USE_PLDP(pldp)
               + GET_SIZE(READ_WORD(m, HDRP_USE_PLDP(pldp), g)) - WSIZE, g)

\* mm_malloc from the result ex of extend_heap on
malloc_extended(ex, asize, g) ==
  IF ex.ret = NULL \/ ex.fault
  THEN [mem |-> ex.mem, brk |-> ex.brk, lists |-> ex.lists,
        ret |-> NULL, fault |-> ex.fault, sbrk |-> 1,
        failed |-> ex.failed, asize |-> asize, fit |-> FALSE,
        pre |-> 0, foot |-> 0]
  ELSE [mem |-> place_and_split(ex.mem, ex.ret, FromW(asize), g),
        brk |-> ex.brk, lists |-> ex.lists, ret |-> ex.ret,
        fault |-> place_wraps(ex.mem, ex.ret, FromW(asize), g),
        sbrk |-> 1, failed |-> FALSE, asize |-> asize, fit |-> FALSE,
        pre |-> READ_WORD(ex.mem, HDRP_USE_PLDP(ex.ret), g),
        foot |-> FTR_WORD(ex.mem, ex.ret, g)]

\* mm_malloc that extends the heap whatever find_first_fit returned
malloc_always_extends(m, brk, lists, pldp, asize, g) ==
  IF pldp = -1
  THEN [mem |-> m, brk |-> brk, lists |-> lists, ret |-> NULL, fault |-> TRUE,
        sbrk |-> 0, failed |-> FALSE, asize |-> asize, fit |-> FALSE,
        pre |-> 0, foot |-> 0]
  ELSE malloc_extended(extend_heap(m, brk, lists, asize, g), asize, g)

\* mm_malloc from the result pldp of find_first_fit on
malloc_found(m, brk, lists, pldp, asize, g) ==
  IF pldp = -1
  THEN [mem |-> m, brk |-> brk, lists |-> lists, ret |-> NULL, fault |-> TRUE,
        sbrk |-> 0, failed |-> FALSE, asize |-> asize, fit |-> FALSE,
        pre |-> 0, foot |-> 0]
  ELSE IF pldp # NULL
  THEN [mem |-> place_and_split(m, pldp, FromW(asize), g),
        brk |-> brk, lists |-> lists, ret |-> pldp,
        fault |-> place_wraps(m, pldp, FromW(asize), g),
        sbrk |-> 0, failed |-> FALSE, asize |-> asize, fit |-> TRUE,
        pre |-> READ_WORD(m, HDRP_USE_PLDP(pldp), g),
        foot |-> FTR_WORD(m, pldp, g)]
  ELSE malloc_extended(extend_heap(m, brk, lists, asize, g), asize, g)

\* mm_malloc without the test for a zero size
mm_malloc_nozero(m, brk, lists, listp, size, g) ==
  malloc_found(m, brk, lists,
               find_first_fit(m, listp, ALIGN(AddW(size, WSIZE)), g),
               ALIGN(AddW(size, WSIZE)), g)

\* mm_malloc(size), size a size_t pair.  sbrk counts the calls of mem_sbrk.
mm_malloc(m, brk, lists, listp, size, g) ==
  IF size = <<0, 0>>
  THEN [mem |-> m, brk |-> brk, lists |-> lists, ret |-> NULL, fault |-> FALSE,
        sbrk |-> 0, failed |-> FALSE, asize |-> <<0, 0>>, fit |-> FALSE,
        pre |-> 0, foot |-> 0]
  ELSE malloc_found(m, brk, lists,
                    find_first_fit(m, listp, ALIGN(AddW(size, WSIZE)), g),
                    ALIGN(AddW(size, WSIZE)), g)

(***************************************************************************)
(* The client: request sizes it may pass, size_t values as <<hi, lo>>.     *)
(***************************************************************************)
\* 2^32 - 1 and 2^31
SIZE_MAX == <<65535, 65535>>
SIZE_HALF == <<32768, 0>>

\* 2^32 - 20: size + WSIZE is 2^32 - 16 and rounding it up to a chunk gives 0
SIZE_WRAP == <<65535, 65516>>

ReqSizes ==
  {ToW(0), ToW(1), ToW(50), ToW(100), ToW(4000), ToW(4092), ToW(5000),
   ToW(8188), ToW(8200), SIZE_HALF, SIZE_WRAP, SIZE_MAX}

\* sizes find_index is probed with: every class boundary and its neighbours
ProbeSizes ==
  ({index_array(i) : i \in 0 .. index_arr_size - 1}
     \cup {AddW(index_array(i), 1) : i \in 0 .. index_arr_size - 1}
     \cup {AddW(index_array(i), Half - 1) : i \in 12 .. index_arr_size - 1}
     \cup {ToW(FromW(index_array(i)) - 1) : i \in 1 .. index_arr_size - 2}
     \cup {<<32767, 65535>>, SIZE_MAX, SIZE_WRAP, ToW(24), ToW(100), ToW(5000)})

NoCall == [op |-> "none", size |-> ToW(0), ret |-> NULL, sbrk |-> 0,
           failed |-> FALSE, fit |-> FALSE, asize |-> ToW(0),
           pre |-> 0, foot |-> 0]

NoProbe == [size |-> ToW(0), ret |-> -2]

Init ==
  /\ mem = [a \in {} |-> 0]
  /\ mem_brk = mem_heap
  /\ heap_listp = NULL
  /\ segregated_free_list = [i \in 0 .. index_arr_size - 1 |-> NULL]
  /\ status = "start"
  /\ handles = <<>>
  /\ last = NoCall
  /\ hist = <<>>
  /\ ncalls = 0
  /\ probe = NoProbe

\* mm_init
MmInit ==
  /\ status = "start"
  /\ \E g \in Garbage :
       IF mem_sbrk_fails(mem_brk, ToW(2 * WSIZE))
       THEN /\ status' = "init_failed"
            /\ last' = [NoCall EXCEPT !.op = "init"]
            /\ UNCHANGED <<mem, mem_brk, heap_listp, segregated_free_list>>
       ELSE \E ex \in {extend_heap(
                          WRITE_WORD(WRITE_WORD(mem, mem_brk, PACK(0, CURR_ALLOC)),
                                     mem_brk + WSIZE, PACK(0, CURR_ALLOC)),
                          mem_brk + 2 * WSIZE,
                          [i \in 0 .. index_arr_size - 1 |-> NULL],
                          ToW(CHUNKSIZE), g)} :
                /\ mem' = ex.mem
                /\ mem_brk' = ex.brk
                /\ heap_listp' = mem_brk + WSIZE
                /\ segregated_free_list' = ex.lists
                /\ status' = IF ex.fault THEN "fault"
                             ELSE IF ex.ret = NULL THEN "init_failed" ELSE "ready"
                /\ last' = IF ex.fault \/ ex.ret = NULL
                           THEN [NoCall EXCEPT !.op = "init"]
                           ELSE [NoCall EXCEPT !.op = "init", !.ret = ex.ret,
                                   !.pre = READ_WORD(ex.mem, HDRP_USE_PLDP(ex.ret), g),
                                   !.foot = FTR_WORD(ex.mem, ex.ret, g)]
  /\ UNCHANGED <<handles, hist, ncalls, probe>>

\* one call of mm_malloc by the client
MmMalloc ==
  /\ status = "ready"
  /\ ncalls < MaxCalls
  /\ \E size \in ReqSizes, g \in Garbage :
       \E r \in {mm_malloc(mem, mem_brk, segregated_free_list, heap_listp, size, g)} :
           IF r.fault
           THEN \* the call reads or writes where the C standard gives no meaning
                /\ status' = "fault"
                /\ last' = [NoCall EXCEPT !.op = "malloc", !.size = size]
                /\ UNCHANGED <<mem, mem_brk, segregated_free_list, handles>>
           ELSE /\ mem' = r.mem
                /\ mem_brk' = r.brk
                /\ segregated_free_list' = r.lists
                /\ status' = "ready"
                /\ last' = [op |-> "malloc", size |-> size, ret |-> r.ret,
                            sbrk |-> r.sbrk, failed |-> r.failed, fit |-> r.fit,
                            asize |-> r.asize, pre |-> r.pre,
                            foot |-> r.foot]
                /\ handles' =
                     IF r.ret = NULL THEN handles
                     ELSE Append(handles,
                            [ptr |-> r.ret, size |-> size,
                             bsize |-> GET_SIZE(READ_WORD(r.mem, HDRP_USE_PLDP(r.ret), g))])
  /\ ncalls' = ncalls + 1
  /\ hist' = Append(hist, last')
  /\ UNCHANGED <<heap_listp, probe>>

\* mm_free(ptr): assert(NULL) ends the process
MmFree ==
  /\ status = "ready"
  /\ ncalls < MaxCalls
  /\ \E i \in 1 .. Len(handles) :
       last' = [NoCall EXCEPT !.op = "free", !.ret = handles[i].ptr]
  /\ status' = "aborted"
  /\ ncalls' = ncalls + 1
  /\ hist' = Append(hist, last')
  /\ UNCHANGED <<mem, mem_brk, heap_listp, segregated_free_list, handles, probe>>

\* mm_realloc(ptr, size): assert(NULL) ends the process
MmRealloc ==
  /\ status = "ready"
  /\ ncalls < MaxCalls
  /\ \E i \in 1 .. Len(handles), size \in ReqSizes :
       last' = [NoCall EXCEPT !.op = "realloc", !.ret = handles[i].ptr, !.size = size]
  /\ status' = "aborted"
  /\ ncalls' = ncalls + 1
  /\ hist' = Append(hist, last')
  /\ UNCHANGED <<mem, mem_brk, heap_listp, segregated_free_list, handles, probe>>

Next == MmInit \/ MmMalloc \/ MmFree \/ MmRealloc

Spec == Init /\ [][Next]_vars

(***************************************************************************)
(* The client uses what it was given: it stores a word into one of the     *)
(* first two words of the payload mm_malloc has just returned, inside the  *)
(* bytes it asked for.  The word it stores is the address of the block.    *)
(***************************************************************************)
ClientWrite ==
  /\ status = "ready"
  /\ last.op = "malloc"
  /\ last.ret # NULL
  /\ Cardinality({i \in 1 .. Len(hist) : hist[i].op = "write"}) < MaxWrites
  /\ \E off \in {0, WSIZE} :
       /\ LeW(ToW(off + WSIZE), last.size)
       /\ mem' = WRITE_WORD(mem, last.ret + off, last.ret)
       /\ last' = [NoCall EXCEPT !.op = "write", !.ret = last.ret + off]
  /\ hist' = Append(hist, last')
  /\ UNCHANGED <<mem_brk, heap_listp, segregated_free_list, status, handles,
                 ncalls, probe>>

NextClient == Next \/ ClientWrite

SpecClient == Init /\ [][NextClient]_vars

(***************************************************************************)
(* find_index on its own: the input is drawn first, then the function is   *)
(* applied to it.                                                          *)
(***************************************************************************)
InitProbe ==
  /\ mem = [a \in {} |-> 0]
  /\ mem_brk = mem_heap
  /\ heap_listp = NULL
  /\ segregated_free_list = [i \in 0 .. index_arr_size - 1 |-> NULL]
  /\ status = "probe"
  /\ handles = <<>>
  /\ last = NoCall
  /\ hist = <<>>
  /\ ncalls = 0
  /\ probe \in {[size |-> s, ret |-> -2] : s \in ProbeSizes}

ProbeFindIndex ==
  /\ status = "probe"
  /\ probe.ret = -2
  /\ probe' = [probe EXCEPT !.ret = find_index(probe.size)]
  /\ UNCHANGED <<mem, mem_brk, heap_listp, segregated_free_list, status,
                 handles, last, hist, ncalls>>

NextProbe == ProbeFindIndex

SpecProbe == InitProbe /\ [][NextProbe]_vars

(***************************************************************************)
(* The heap as the allocator's own scan sees it.                           *)
(***************************************************************************)
\* header addresses from a on, following each header's size, up to and
\* including the first zero-size header; the walk stops where it reaches a
\* word that was never written
RECURSIVE Walk(_, _)
Walk(a, fuel) ==
  IF fuel = 0 \/ a \notin DOMAIN mem THEN <<>>
  ELSE IF GET_SIZE(mem[a]) = 0 THEN <<a>>
  ELSE <<a>> \o Walk(a + GET_SIZE(mem[a]), fuel - 1)

HeapWalk == Walk(heap_listp, MaxScan)

\* the blocks of the heap: the walk's headers of non-zero size
HeapBlocks == {HeapWalk[i] : i \in {j \in 1 .. Len(HeapWalk) : GET_SIZE(mem[HeapWalk[j]]) > 0}}

\* an allocate call has completed, or init has
Quiescent == status = "ready"

\* the block [hdr, hdr + bsize) of a handle
HandleLo(h) == HDRP_USE_PLDP(h.ptr)
HandleHi(h) == HDRP_USE_PLDP(h.ptr) + h.bsize

(***************************************************************************)
(* C1: every block returned by allocate(s), s >= 1, lies inside the region *)
(* [base, end), overlaps no block returned earlier, and has usable size    *)
(* (block size minus the header word) of at least s.                       *)
(***************************************************************************)
C1_ReturnedBlocksSafe ==
  Quiescent =>
    \A i \in 1 .. Len(handles) :
      /\ mem_heap <= HandleLo(handles[i])
      /\ HandleHi(handles[i]) <= mem_brk
      /\ LeW(handles[i].size, ToW(handles[i].bsize - WSIZE))
      /\ \A j \in 1 .. i - 1 :
           \/ HandleHi(handles[j]) <= HandleLo(handles[i])
           \/ HandleHi(handles[i]) <= HandleLo(handles[j])

(***************************************************************************)
(* C2: after init and after every completed allocate, the word following   *)
(* each block B (the header of the next block or of the epilogue) carries  *)
(* prev_alloc = B's alloc bit, and the first block after the prologue      *)
(* carries prev_alloc = 1.  A word never written is indeterminate, so the  *)
(* equality has to hold for every value it may have.                       *)
(***************************************************************************)
C2_PrevAllocCorrect ==
  Quiescent =>
    /\ \A g \in Garbage : GET_PREV_ALLOC(READ_WORD(mem, heap_listp, g)) = 1
    /\ \A b \in HeapBlocks : \A g \in Garbage :
         GET_PREV_ALLOC(READ_WORD(mem, b + GET_SIZE(mem[b]), g)) = GET_ALLOC(mem[b])

(***************************************************************************)
(* C3: after init and after every completed allocate, the walk from the    *)
(* first block to the epilogue never meets two consecutive blocks that     *)
(* both have the alloc bit clear.                                          *)
(***************************************************************************)
C3_NoAdjacentFree ==
  Quiescent =>
    \A i \in 1 .. Len(HeapWalk) - 1 :
      ~ /\ GET_SIZE(mem[HeapWalk[i]]) > 0
        /\ GET_ALLOC(mem[HeapWalk[i]]) = 0
        /\ GET_SIZE(mem[HeapWalk[i + 1]]) > 0
        /\ GET_ALLOC(mem[HeapWalk[i + 1]]) = 0

(***************************************************************************)
(* C4: after init and after every completed allocate, every free block has *)
(* a footer word at block address + size - WSIZE that encodes the size of  *)
(* its header and a clear alloc bit.                                       *)
(***************************************************************************)
C4_FooterMatchesHeader ==
  Quiescent =>
    \A b \in HeapBlocks :
      GET_ALLOC(mem[b]) = 0 =>
        \A g \in Garbage :
          /\ GET_SIZE(READ_WORD(mem, b + GET_SIZE(mem[b]) - WSIZE, g)) = GET_SIZE(mem[b])
          /\ GET_ALLOC(READ_WORD(mem, b + GET_SIZE(mem[b]) - WSIZE, g)) = 0

\* the blocks reachable from a list head through the next links
RECURSIVE ListFrom(_, _)
ListFrom(hdrp, fuel) ==
  IF fuel = 0 \/ hdrp = NULL THEN {}
  ELSE IF (hdrp + 2 * WSIZE) \notin DOMAIN mem THEN {hdrp}
  ELSE {hdrp} \cup ListFrom(mem[hdrp + 2 * WSIZE], fuel - 1)

ListNodes(i) == ListFrom(segregated_free_list[i], MaxScan)

(***************************************************************************)
(* C5: after init and after every completed allocate, every free block of  *)
(* size S is reachable from the head of list find_index(S) and of no other *)
(* list, and whatever is reachable from a list head is the start of a      *)
(* block of the heap whose alloc bit is clear.                             *)
(***************************************************************************)
C5_FreeBlocksInTheirClass ==
  Quiescent =>
    /\ \A b \in HeapBlocks :
         GET_ALLOC(mem[b]) = 0 =>
           \A i \in 0 .. index_arr_size - 1 :
             (b \in ListNodes(i)) <=> (i = find_index(ToW(GET_SIZE(mem[b]))))
    /\ \A i \in 0 .. index_arr_size - 1 :
         \A n \in ListNodes(i) : n \in HeapBlocks /\ GET_ALLOC(mem[n]) = 0

(***************************************************************************)
(* C6: for every size in [16, 2^32), find_index(size) is the greatest      *)
(* index i in [0, 27] with 2^(4+i) <= size; find_index is monotonic;       *)
(* find_index(31) = 0 and find_index(32) = 1.                              *)
(***************************************************************************)
C6_FindIndexGreatestBoundary ==
  (status = "probe" /\ probe.ret # -2 /\ LeW(ToW(16), probe.size)) =>
    /\ probe.ret \in 0 .. index_arr_size - 1
    /\ LeW(index_array(probe.ret), probe.size)
    /\ probe.ret < index_arr_size - 1 => LtW(probe.size, index_array(probe.ret + 1))
    /\ \A s \in ProbeSizes : LtW(probe.size, s) => probe.ret <= find_index(s)
    /\ probe.size = ToW(31) => probe.ret = 0
    /\ probe.size = ToW(32) => probe.ret = 1

\* find_index was applied to a size of the top class and to 31 or 32
C6_Witness ==
  /\ status = "probe"
  /\ probe.ret # -2
  /\ \/ probe.size = SIZE_MAX /\ probe.ret = 27
     \/ probe.size = ToW(31) /\ probe.ret = 0
     \/ probe.size = ToW(32) /\ probe.ret = 1

\* this step is a call of mm_malloc that returned (or faulted)
MallocStep == ncalls' = ncalls + 1 /\ last'.op = "malloc"

HeapUnchanged ==
  /\ mem' = mem
  /\ mem_brk' = mem_brk
  /\ heap_listp' = heap_listp
  /\ segregated_free_list' = segregated_free_list

(***************************************************************************)
(* C7: when mem_sbrk refuses to grow the region during an allocate call    *)
(* that found no fitting free block, allocate returns NULL without         *)
(* aborting, and no heap word, sentinel, region bound or list head         *)
(* changes.                                                                *)
(***************************************************************************)
C7_SbrkFailureLeavesHeap ==
  [][(MallocStep /\ last'.failed) =>
       (last'.ret = NULL /\ status' = "ready" /\ HeapUnchanged)]_vars

\* an allocate call asked the provider once, was refused and returned NULL
C7_Witness ==
  /\ status = "ready"
  /\ last.op = "malloc"
  /\ last.failed
  /\ last.sbrk = 1
  /\ last.ret = NULL

\* size + WSIZE rounded up to the block granularity, or that rounded up to
\* the chunk granularity, does not fit the machine word
OutOfRange(size) ==
  \/ LtW(ALIGN(AddW(size, WSIZE)), size)
  \/ LtW(ALIGN_CHUNKSIZE(ALIGN(AddW(size, WSIZE))), size)

(***************************************************************************)
(* C8: a completed allocate(size) with size + one header word, rounded up, *)
(* not representable in the machine word returned no block, and no         *)
(* returned block has usable size below the requested size.                *)
(***************************************************************************)
C8_OversizeRejected ==
  Quiescent =>
    /\ (last.op = "malloc" /\ OutOfRange(last.size)) => last.ret = NULL
    /\ \A i \in 1 .. Len(handles) :
         OutOfRange(handles[i].size) =>
           LeW(handles[i].size, ToW(handles[i].bsize - WSIZE))

(***************************************************************************)
(* C9: after h = allocate(s) succeeds, release(h) returns and a second     *)
(* allocate(s) returns a block without moving the region end.              *)
(***************************************************************************)
C9_ReleaseThenReuse ==
  /\ last.op = "free" => status = "ready"
  /\ \A k \in 3 .. Len(hist) :
       ( /\ hist[k - 2].op = "malloc" /\ hist[k - 2].ret # NULL
         /\ hist[k - 1].op = "free" /\ hist[k - 1].ret = hist[k - 2].ret
         /\ hist[k].op = "malloc" /\ hist[k].size = hist[k - 2].size )
       => (hist[k].ret # NULL /\ hist[k].sbrk = 0)

(***************************************************************************)
(* C10: allocate(0) returns NULL without error, without calling mem_sbrk   *)
(* and without changing any heap word, region bound or list head.          *)
(***************************************************************************)
C10_ZeroSizeIsNoOp ==
  [][(MallocStep /\ last'.size = ToW(0)) =>
       (last'.ret = NULL /\ last'.sbrk = 0 /\ status' = "ready"
        /\ HeapUnchanged /\ handles' = handles)]_vars

\* allocate(0) was called on a heap that holds a block it could have used
C10_Witness ==
  /\ status = "ready"
  /\ last.op = "malloc"
  /\ last.size = ToW(0)
  /\ last.ret = NULL
  /\ \E b \in HeapBlocks : GET_ALLOC(mem[b]) = 0

(***************************************************************************)
(* C11: after a successful mm_init the region holds the allocated          *)
(* zero-size prologue, exactly one free block whose header size is the     *)
(* chunk size, which is the number of bytes appended, and the allocated    *)
(* zero-size epilogue; that block is the only entry of the list of         *)
(* class_of(chunk size) and the other 27 list heads are empty.             *)
(***************************************************************************)
C11_InitHeapShape ==
  (last.op = "init" /\ status = "ready") =>
    /\ mem_brk = mem_heap + 2 * WSIZE + CHUNKSIZE
    /\ mem[heap_listp - WSIZE] = PACK(0, CURR_ALLOC)
    /\ GET_SIZE(mem[heap_listp]) = CHUNKSIZE
    /\ GET_ALLOC(mem[heap_listp]) = 0
    /\ HeapWalk = <<heap_listp, heap_listp + CHUNKSIZE>>
    /\ GET_SIZE(mem[mem_brk - WSIZE]) = 0
    /\ GET_ALLOC(mem[mem_brk - WSIZE]) = CURR_ALLOC
    /\ ListNodes(find_index(ToW(CHUNKSIZE))) = {heap_listp}
    /\ \A i \in 0 .. index_arr_size - 1 :
         i # find_index(ToW(CHUNKSIZE)) => segregated_free_list[i] = NULL

\* a call of mm_malloc that extended the heap and completed
ExtendStep ==
  MallocStep /\ last'.sbrk = 1 /\ ~ last'.failed /\ status' = "ready"

\* mm_init completed
InitStep == last'.op = "init" /\ status' = "ready"

(***************************************************************************)
(* C12: on every successful extension by n bytes, extend_heap returns,     *)
(* when the block before the old epilogue is allocated or is the prologue, *)
(* the appended block itself, at the old epilogue's address and of size n; *)
(* when that block is free with size p, one free block at that block's     *)
(* address, of size p + n, with a footer that matches its header.  In      *)
(* last' ret is what extend_heap returned, pre the header word and foot    *)
(* the footer word of the block it returned.                               *)
(***************************************************************************)
C12_ExtendReturnsMergedBlock ==
  [][/\ InitStep =>
          /\ last'.ret = mem_brk + 2 * WSIZE
          /\ GET_SIZE(last'.pre) = mem_brk' - (mem_brk + 2 * WSIZE)
     /\ ExtendStep =>
          \A b \in HeapBlocks :
            b + GET_SIZE(mem[b]) = mem_brk - WSIZE =>
              IF GET_ALLOC(mem[b]) = CURR_ALLOC
              THEN /\ last'.ret = mem_brk
                   /\ GET_SIZE(last'.pre) = mem_brk' - mem_brk
              ELSE /\ last'.ret = b + WSIZE
                   /\ GET_SIZE(last'.pre) = GET_SIZE(mem[b]) + (mem_brk' - mem_brk)
                   /\ GET_SIZE(last'.foot) = GET_SIZE(last'.pre)
                   /\ GET_ALLOC(last'.foot) = 0]_vars

(***************************************************************************)
(* C13: place_and_split(block, asize), remainder = block size - asize.     *)
(* When the remainder is 0 or below the minimum block size the whole block *)
(* becomes allocated and keeps its size; otherwise the allocated block has *)
(* size exactly asize and a free block of size exactly remainder starts at *)
(* block address + asize, its header equal to its footer.  last.pre is the *)
(* block's header word when place_and_split was entered.                   *)
(***************************************************************************)
C13_PlaceAndSplit ==
  (Quiescent /\ last.op = "malloc" /\ last.ret # NULL) =>
    IF GET_SIZE(last.pre) - FromW(last.asize) < MIN_BK_SIZE
    THEN /\ GET_SIZE(mem[HDRP_USE_PLDP(last.ret)]) = GET_SIZE(last.pre)
         /\ GET_ALLOC(mem[HDRP_USE_PLDP(last.ret)]) = CURR_ALLOC
    ELSE /\ GET_SIZE(mem[HDRP_USE_PLDP(last.ret)]) = FromW(last.asize)
         /\ GET_ALLOC(mem[HDRP_USE_PLDP(last.ret)]) = CURR_ALLOC
         /\ GET_SIZE(mem[HDRP_USE_PLDP(last.ret) + FromW(last.asize)])
              = GET_SIZE(last.pre) - FromW(last.asize)
         /\ GET_ALLOC(mem[HDRP_USE_PLDP(last.ret) + FromW(last.asize)]) = 0
         /\ mem[HDRP_USE_PLDP(last.ret) + GET_SIZE(last.pre) - WSIZE]
              = mem[HDRP_USE_PLDP(last.ret) + FromW(last.asize)]

(***************************************************************************)
(* C14: when allocate finds no fit and the provider can grow, the region   *)
(* end advances by asize rounded up to a multiple of CHUNKSIZE, and the    *)
(* returned block lies inside the free space that exists after the         *)
(* extension: it starts no lower than the old epilogue, or than a free     *)
(* block that ended at the old epilogue, and ends no higher than the new   *)
(* epilogue.                                                               *)
(***************************************************************************)
C14_ExtensionHostsBlock ==
  [][ExtendStep =>
       /\ mem_brk' - mem_brk = FromW(ALIGN_CHUNKSIZE(last'.asize))
       /\ HDRP_USE_PLDP(last'.ret) + GET_SIZE(mem'[HDRP_USE_PLDP(last'.ret)])
            <= mem_brk' - WSIZE
       /\ \/ HDRP_USE_PLDP(last'.ret) >= mem_brk - WSIZE
          \/ \E b \in HeapBlocks :
               /\ GET_ALLOC(mem[b]) = 0
               /\ b + GET_SIZE(mem[b]) = mem_brk - WSIZE
               /\ HDRP_USE_PLDP(last'.ret) >= b]_vars

(***************************************************************************)
(* C15: once allocate has returned a block, no later allocate call changes *)
(* the size or the alloc bit in that block's header, or writes a word      *)
(* inside its payload.                                                     *)
(***************************************************************************)
C15_ReturnedBlocksUntouched ==
  [][MallocStep =>
       \A i \in 1 .. Len(handles) :
         /\ GET_SIZE(mem'[HandleLo(handles[i])]) = handles[i].bsize
         /\ GET_ALLOC(mem'[HandleLo(handles[i])]) = CURR_ALLOC
         /\ \A a \in DOMAIN mem' :
              (HandleLo(handles[i]) < a /\ a < HandleHi(handles[i])) =>
                (a \in DOMAIN mem /\ mem'[a] = mem[a])]_vars

(***************************************************************************)
(* C16: after init and after every completed allocate the last word of the *)
(* region, at end - WSIZE, is a header of size 0 with the alloc bit set,   *)
(* and the region end never decreases.  (The claim's middle part, the old  *)
(* epilogue word turning into the header of the appended block, is a step  *)
(* inside extend_heap; C12 looks at what extend_heap returns.)             *)
(***************************************************************************)
C16_EpilogueAtEnd ==
  [][/\ status' = "ready" =>
          /\ GET_SIZE(mem'[mem_brk' - WSIZE]) = 0
          /\ GET_ALLOC(mem'[mem_brk' - WSIZE]) = CURR_ALLOC
     /\ mem_brk' >= mem_brk]_vars

\* the first free block of size >= asize in a list, in list order
RECURSIVE ListFit(_, _, _)
ListFit(hdrp, asize, fuel) ==
  IF fuel = 0 \/ hdrp = NULL \/ hdrp \notin DOMAIN mem THEN NULL
  ELSE IF GET_ALLOC(mem[hdrp]) = 0 /\ LeW(asize, ToW(GET_SIZE(mem[hdrp])))
  THEN hdrp
  ELSE IF (hdrp + 2 * WSIZE) \notin DOMAIN mem THEN NULL
  ELSE ListFit(mem[hdrp + 2 * WSIZE], asize, fuel - 1)

\* the block a search of the lists of class i and above selects
RECURSIVE ClassFit(_, _)
ClassFit(i, asize) ==
  IF i < 0 \/ i >= index_arr_size THEN NULL
  ELSE IF ListFit(segregated_free_list[i], asize, MaxScan) # NULL
  THEN ListFit(segregated_free_list[i], asize, MaxScan)
  ELSE ClassFit(i + 1, asize)

(***************************************************************************)
(* C17: the block allocate places asize into is the one a search of the    *)
(* segregated lists selects: the first block in list order of size >=      *)
(* asize in the list of class_of(asize) or, if there is none, in the next  *)
(* larger class that holds one; allocate reports no fit, and extends,      *)
(* exactly when no list of class >= class_of(asize) holds such a block.    *)
(***************************************************************************)
C17_FitComesFromLists ==
  [][(MallocStep /\ status' = "ready" /\ last'.size # ToW(0)) =>
       IF ClassFit(find_index(last'.asize), last'.asize) # NULL
       THEN /\ last'.fit
            /\ HDRP_USE_PLDP(last'.ret)
                 = ClassFit(find_index(last'.asize), last'.asize)
       ELSE /\ ~ last'.fit
            /\ last'.sbrk = 1]_vars

\* the heap holds a free block of size >= asize
FreeFit(asize) ==
  \E b \in HeapBlocks :
    GET_ALLOC(mem[b]) = 0 /\ LeW(asize, ToW(GET_SIZE(mem[b])))

(***************************************************************************)
(* C18: every allocate call invokes the provider's extend at most once,    *)
(* and only when the heap holds no free block of size >= asize at the time *)
(* of the call; when such a free block exists the call leaves the region   *)
(* end where it was.                                                       *)
(***************************************************************************)
C18_ExtendOnlyWithoutFit ==
  [][(MallocStep /\ last'.size # ToW(0)) =>
       /\ last'.sbrk <= 1
       /\ last'.sbrk = 1 => ~ FreeFit(ALIGN(AddW(last'.size, WSIZE)))
       /\ FreeFit(ALIGN(AddW(last'.size, WSIZE))) => mem_brk' = mem_brk]_vars

\* an allocate call that extended the heap and returned a block, after an
\* earlier call that was served from a free block without extending
C18_Witness ==
  /\ last.op = "malloc" /\ last.sbrk = 1 /\ last.ret # NULL
  /\ \E i \in 1 .. Len(hist) : hist[i].fit /\ hist[i].sbrk = 0

\* the header walk from heap_listp ends at a zero-size header and every
\* header it reads lies inside [base, end)
ScanStaysInside ==
  /\ Len(HeapWalk) > 0
  /\ GET_SIZE(mem[HeapWalk[Len(HeapWalk)]]) = 0
  /\ \A i \in 1 .. Len(HeapWalk) :
       mem_heap <= HeapWalk[i] /\ HeapWalk[i] < mem_brk

(***************************************************************************)
(* C19: after init every allocate call terminates: the scan of             *)
(* find_first_fit reaches a zero-size header after visiting only addresses *)
(* inside [base, end).  A call that found no fit has read every header of  *)
(* the walk from heap_listp, so that walk has to end at a zero-size header *)
(* inside the region; a scan that does not end leaves the call without a   *)
(* result.                                                                 *)
(***************************************************************************)
C19_ScanTerminatesInside ==
  [][(MallocStep /\ last'.size # ToW(0) /\ ~ last'.fit) =>
       (ScanStaysInside /\ status' = "ready")]_vars

\* the list from hdrp on, entered from prev (NULL at the head): every node's
\* prev link names the node before it, addresses ascend strictly, and the
\* next links end at NULL
RECURSIVE ListOK(_, _, _)
ListOK(prev, hdrp, fuel) ==
  IF hdrp = NULL THEN TRUE
  ELSE IF fuel = 0 THEN FALSE
  ELSE /\ (hdrp + WSIZE) \in DOMAIN mem
       /\ (hdrp + 2 * WSIZE) \in DOMAIN mem
       /\ mem[hdrp + WSIZE] = prev
       /\ prev < hdrp
       /\ ListOK(hdrp, mem[hdrp + 2 * WSIZE], fuel - 1)

(***************************************************************************)
(* C20: after any sequence of insert_into_size_class calls made by init    *)
(* and allocate, every class list is strictly ascending by block address   *)
(* along the next links from its head and is a well-formed doubly linked   *)
(* list: the head's prev is NULL, the tail's next is NULL, and for every   *)
(* node a with next b, b's prev is a.                                      *)
(***************************************************************************)
C20_ListsOrderedAndLinked ==
  (Quiescent /\ last.op \in {"init", "malloc"}) =>
    \A i \in 0 .. index_arr_size - 1 :
      ListOK(NULL, segregated_free_list[i], MaxScan)
====
